---- MODULE Spec2Model ----
(***************************************************************************)
(* Model of job-hunt-agent-new.py: the Streamlit script main(), the        *)
(* session-scoped JobSearchingAgent and its two operations find_jobs and   *)
(* get_industry_trends, with the two external calls (firecrawl.extract and *)
(* requests.post) as steps whose outcome the environment chooses.          *)
(*                                                                         *)
(* A Python str is a sequence of tokens (each token a piece of text), so   *)
(* that formatting, joining, splitting and substring tests are computed.   *)
(* A Python value of varying type is a tagged record ([t |-> "dict", ...]).*)
(* One script run is not interrupted by a widget event: a run proceeds     *)
(* from its trigger to its end, pausing only at the external calls.        *)
(***************************************************************************)
EXTENDS Integers, Sequences, FiniteSets, TLC

VARIABLES
    scenario,        \* what the user can type and what the providers can answer (fixed at Init)
    widgets,         \* current values of the input widgets
    session_state,   \* st.session_state: a mapping, DOMAIN = the keys present
    pc,              \* position of the script run
    job_results,     \* main's local job_results (None before it is assigned)
    industry_trends, \* main's local industry_trends
    display,         \* what the current run rendered, in order
    calls,           \* history: calls and returns of the current run, in order
    find,            \* history: the current run's find_jobs invocation
    trends,          \* history: the current run's get_industry_trends invocation
    constructed,     \* history: number of JobSearchingAgent constructions (saturating)
    firstSupplied,   \* history: the credential inputs of the first run that had all three
    prev             \* history: an earlier completed find_jobs invocation of the session

vars == <<scenario, widgets, session_state, pc, job_results, industry_trends,
          display, calls, find, trends, constructed, firstSupplied, prev>>

-----------------------------------------------------------------------------
(* Bounds *)

\* longest list of postings the extraction provider returns
MaxPostings == 2
\* longest list of industry trends the extraction provider returns
MaxTrends == 2
\* the construction counter saturates here
MaxConstructions == 2

-----------------------------------------------------------------------------
(* Python values *)

None == [t |-> "None"]
PyObject == [t |-> "object"]
PyBool(b) == [t |-> "bool", b |-> b]
PyList(s) == [t |-> "list", l |-> s]
PyDict(f) == [t |-> "dict", d |-> f]

isinstance_dict(v) == v.t = "dict"

\* bool(v)
Truthy(v) ==
    CASE v.t = "None" -> FALSE
      [] v.t = "bool" -> v.b
      [] v.t = "list" -> v.l # <<>>
      [] v.t = "dict" -> DOMAIN v.d # {}
      [] OTHER -> TRUE

\* d.get(key, default) on a dict
DictGet(v, key, default) == IF key \in DOMAIN v.d THEN v.d[key] ELSE default

Min(a, b) == IF a < b THEN a ELSE b

-----------------------------------------------------------------------------
(* str operations on token sequences *)

LowerTok(c) ==
    CASE c = "Software" -> "software"
      [] c = "Engineer" -> "engineer"
      [] c = "New" -> "new"
      [] c = "York" -> "york"
      [] c = "Remote" -> "remote"
      [] c = "Data" -> "data"
      [] c = "Science" -> "science"
      [] c = "Information" -> "information"
      [] c = "Technology" -> "technology"
      [] OTHER -> c

\* s.lower()
Lower(s) == [i \in 1..Len(s) |-> LowerTok(s[i])]

\* s.replace(old, new) for a one-character old
Replace(s, old, new) == [i \in 1..Len(s) |-> IF s[i] = old THEN new ELSE s[i]]

CharLen(c) ==
    CASE c = "Data" -> 4
      [] c = "Science" -> 7
      [] c = "Information" -> 11
      [] c = "Technology" -> 10
      [] c = " " -> 1
      [] OTHER -> 1

RECURSIVE StrLen(_)
\* len(s), in characters
StrLen(s) == IF s = <<>> THEN 0 ELSE CharLen(Head(s)) + StrLen(Tail(s))

RECURSIVE Join(_, _)
\* sep.join(parts)
Join(sep, parts) ==
    IF parts = <<>> THEN <<>>
    ELSE IF Len(parts) = 1 THEN parts[1]
    ELSE parts[1] \o sep \o Join(sep, Tail(parts))

RECURSIVE Split(_, _)
\* s.split(sep) for a one-character sep: always at least one part
Split(s, sep) ==
    IF \A i \in 1..Len(s) : s[i] # sep THEN <<s>>
    ELSE LET i == CHOOSE j \in 1..Len(s) : s[j] = sep /\ \A k \in 1..(j - 1) : s[k] # sep
         IN <<SubSeq(s, 1, i - 1)>> \o Split(SubSeq(s, i + 1, Len(s)), sep)

RECURSIVE LStrip(_)
LStrip(s) == IF s # <<>> /\ Head(s) = " " THEN LStrip(Tail(s)) ELSE s

RECURSIVE RStrip(_)
RStrip(s) == IF s # <<>> /\ s[Len(s)] = " " THEN RStrip(SubSeq(s, 1, Len(s) - 1)) ELSE s

\* s.strip()
Strip(s) == RStrip(LStrip(s))

\* needle in haystack
Contains(haystack, needle) ==
    \E i \in 0..(Len(haystack) - Len(needle)) :
        SubSeq(haystack, i + 1, i + Len(needle)) = needle

IsPrefix(p, s) == Len(p) <= Len(s) /\ SubSeq(s, 1, Len(p)) = p

\* repr of a str
ReprStr(s) == <<"'">> \o s \o <<"'">>

FieldOrder == <<"region", "role", "job_title", "experience", "job_link",
                "industry", "demand_level">>

\* repr of a dict of str values, keys in insertion order
ReprDict(v) ==
    LET keys == SelectSeq(FieldOrder, LAMBDA k : k \in DOMAIN v.d)
        items == [i \in 1..Len(keys) |-> ReprStr(<<keys[i]>>) \o <<": ">> \o ReprStr(v.d[keys[i]])]
    IN <<"{">> \o Join(<<", ">>, items) \o <<"}">>

\* repr of a list of dicts, as an f-string embeds it
ReprList(v) ==
    <<"[">> \o Join(<<", ">>, [i \in 1..Len(v.l) |-> ReprDict(v.l[i])]) \o <<"]">>

-----------------------------------------------------------------------------
(* JobSearchingAgent *)

Nothing == [has |-> FALSE]
Some(v) == [has |-> TRUE, v |-> v]

max_new_tokens == 800

\* __init__: the adapter handle holds the extraction key; id is the object's identity
JobSearchingAgent(firecrawl_api_key, hf_api_key, model_url) ==
    [firecrawl |-> [api_key |-> firecrawl_api_key],
     hf_api_key |-> hf_api_key,
     model_url |-> model_url,
     id |-> constructed + 1]

\* faulty variant: the request is built from the session's current key, not the agent's
GenerateRequest_SessionKey(self, prompt) ==
    [url |-> self.model_url,
     headers |-> [Authorization |-> <<"Bearer ", session_state["hf_key"]>>,
                  ContentType |-> "application/json"],
     json |-> [inputs |-> prompt, parameters |-> [max_new_tokens |-> max_new_tokens]]]

\* the request _generate_text posts
GenerateRequest(self, prompt) ==
    [url |-> self.model_url,
     headers |-> [Authorization |-> <<"Bearer ", self.hf_api_key>>,
                  ContentType |-> "application/json"],
     json |-> [inputs |-> prompt, parameters |-> [max_new_tokens |-> max_new_tokens]]]

\* response.raise_for_status() raises
RaisesForStatus(status) == 400 <= status /\ status < 600

\* response.json()[0]['generated_text']: the exception it raises, if any
GeneratedTextError(body) ==
    CASE body.t = "notjson" -> Some(<<"Expecting value: line 1 column 1 (char 0)">>)
      [] body.t = "dict" -> Some(<<"0">>)
      [] body.t = "list" /\ body.l = <<>> -> Some(<<"list index out of range">>)
      [] body.t = "list" /\ "generated_text" \notin DOMAIN body.l[1].d -> Some(<<"'generated_text'">>)
      [] OTHER -> Nothing

\* how a call ends: it returns v, or raises an exception whose str() is v
Return(v) == [raised |-> FALSE, v |-> v]
Raise(v) == [raised |-> TRUE, v |-> v]

\* faulty variant: no except clause, the exceptions of the try block propagate
_generate_text_NoCatch(outcome) ==
    IF outcome.kind = "raises"
    THEN Raise(outcome.exc)
    ELSE IF RaisesForStatus(outcome.status)
    THEN Raise(<<ToString(outcome.status), " Error">>)
    ELSE IF GeneratedTextError(outcome.body).has
    THEN Raise(GeneratedTextError(outcome.body).v)
    ELSE Return(outcome.body.l[1].d.generated_text)

\* _generate_text once requests.post has ended with `outcome`: the try block,
\* and the except clause that turns every exception into a returned string
_generate_text(outcome) ==
    IF outcome.kind = "raises"
    THEN Return(<<"Error generating text: ">> \o outcome.exc)
    ELSE IF RaisesForStatus(outcome.status)
    THEN Return(<<"Error generating text: ">> \o <<ToString(outcome.status), " Error">>)
    ELSE IF GeneratedTextError(outcome.body).has
    THEN Return(<<"Error generating text: ">> \o GeneratedTextError(outcome.body).v)
    ELSE Return(outcome.body.l[1].d.generated_text)

NoJobsMessage == <<"No job listings found matching your criteria.">>

NoTrendsMessage(job_category) ==
    <<"No industry trends data available for ">> \o job_category \o <<".">>

FormatToken(s) == Replace(Lower(s), " ", "-")

\* faulty variant: joined with a bare comma
SkillsString_NoSpace(skills) == Join(<<",">>, skills)

SkillsString(skills) == Join(<<", ">>, skills)

FindJobsUrls(job_title, location) ==
    << <<"https://www.naukri.com/">> \o FormatToken(job_title) \o <<"-jobs-in-">>
           \o FormatToken(location),
       <<"https://www.indeed.com/jobs?q=">> \o FormatToken(job_title) \o <<"&l=">>
           \o FormatToken(location),
       <<"https://www.monster.com/jobs/search/?q=">> \o FormatToken(job_title)
           \o <<"&where=">> \o FormatToken(location) >>

FindJobsExtractPrompt(job_title, location, experience_years, skills) ==
    <<"Extract job postings by region, roles, job titles, and experience from these job sites. Look for jobs that match these criteria: - Job Title: Should be related to ">>
    \o job_title
    \o <<" - Location: ">> \o location
    \o <<" (include remote jobs if available) - Experience: Around ">>
    \o <<ToString(experience_years)>>
    \o <<" years - Skills: Should match at least some of these skills: ">>
    \o SkillsString(skills)
    \o <<" - Job Type: Full-time, Part-time, Contract, Temporary, Internship Extract: - region, role, job_title, experience, job_link MAX 10 postings.">>

\* the request find_jobs hands to self.firecrawl.extract
FindJobsExtractRequest(self, job_title, location, experience_years, skills) ==
    [api_key |-> self.firecrawl.api_key,
     urls |-> FindJobsUrls(job_title, location),
     params |-> [prompt |-> FindJobsExtractPrompt(job_title, location, experience_years, skills),
                 schema |-> "ExtractSchema"]]

\* faulty variant: only the first posting is embedded
FindJobsPrompt_FirstOnly(jobs) ==
    <<"As a career expert, analyze these job opportunities: Jobs: ">>
    \o ReprList(PyList(SubSeq(jobs.l, 1, 1)))
    \o <<" INSTRUCTIONS: 1. Select best matching 5-6 jobs. 2. Provide: SELECTED JOB OPPORTUNITIES - Job Title and Role - Region/Location - Experience Required - Pros and Cons - Job Link SKILLS MATCH ANALYSIS - Skills match - Experience fit - Growth potential RECOMMENDATIONS - Top 3 jobs - Career growth APPLICATION TIPS - Resume and strategy tips">>

FindJobsPrompt(jobs) ==
    <<"As a career expert, analyze these job opportunities: Jobs: ">>
    \o ReprList(jobs)
    \o <<" INSTRUCTIONS: 1. Select best matching 5-6 jobs. 2. Provide: SELECTED JOB OPPORTUNITIES - Job Title and Role - Region/Location - Experience Required - Pros and Cons - Job Link SKILLS MATCH ANALYSIS - Skills match - Experience fit - Growth potential RECOMMENDATIONS - Top 3 jobs - Career growth APPLICATION TIPS - Resume and strategy tips">>

\* raw_response['data'].get(key, []): the exception it raises, if any
DataGetError(raw_response) ==
    IF "data" \notin DOMAIN raw_response.d THEN Some(<<"'data'">>)
    ELSE IF ~isinstance_dict(raw_response.d.data)
    THEN Some(<<"'NoneType' object has no attribute 'get'">>)
    ELSE Nothing

\* isinstance(raw_response, dict) and raw_response.get('success')
ExtractSucceeded(raw_response) ==
    isinstance_dict(raw_response) /\ Truthy(DictGet(raw_response, "success", None))

\* faulty variant: the success flag is not consulted, the payload is read whenever present
FindJobsAfterExtract_IgnoresSuccess(outcome) ==
    IF outcome.kind = "raises"
    THEN [ends |-> TRUE,
          completion |-> Return(<<"An error occurred while searching for jobs: ">>
                                \o outcome.exc)]
    ELSE LET raw_response == outcome.value
             readable == isinstance_dict(raw_response) /\ ~DataGetError(raw_response).has
             jobs == IF readable
                     THEN DictGet(raw_response.d.data, "job_postings", PyList(<<>>))
                     ELSE PyList(<<>>)
         IN IF ~Truthy(jobs)
            THEN [ends |-> TRUE, completion |-> Return(NoJobsMessage)]
            ELSE [ends |-> FALSE, prompt |-> FindJobsPrompt(jobs)]

\* faulty variant: no except clause, an exception of the extraction call propagates
FindJobsAfterExtract_NoCatch(outcome) ==
    IF outcome.kind = "raises"
    THEN [ends |-> TRUE, completion |-> Raise(outcome.exc)]
    ELSE LET raw_response == outcome.value IN
         IF ExtractSucceeded(raw_response) /\ DataGetError(raw_response).has
         THEN [ends |-> TRUE, completion |-> Raise(DataGetError(raw_response).v)]
         ELSE LET jobs == IF ExtractSucceeded(raw_response)
                          THEN DictGet(raw_response.d.data, "job_postings", PyList(<<>>))
                          ELSE PyList(<<>>)
              IN IF ~Truthy(jobs)
                 THEN [ends |-> TRUE, completion |-> Return(NoJobsMessage)]
                 ELSE [ends |-> FALSE, prompt |-> FindJobsPrompt(jobs)]

\* find_jobs from the return of the extraction call on: either it ends
\* (`completion`), or it goes on to _generate_text with `prompt`
FindJobsAfterExtract(outcome) ==
    IF outcome.kind = "raises"
    THEN [ends |-> TRUE,
          completion |-> Return(<<"An error occurred while searching for jobs: ">>
                                \o outcome.exc)]
    ELSE LET raw_response == outcome.value IN
         IF ExtractSucceeded(raw_response) /\ DataGetError(raw_response).has
         THEN [ends |-> TRUE,
               completion |-> Return(<<"An error occurred while searching for jobs: ">>
                                     \o DataGetError(raw_response).v)]
         ELSE LET jobs == IF ExtractSucceeded(raw_response)
                          THEN DictGet(raw_response.d.data, "job_postings", PyList(<<>>))
                          ELSE PyList(<<>>)
              IN IF ~Truthy(jobs)
                 THEN [ends |-> TRUE, completion |-> Return(NoJobsMessage)]
                 ELSE [ends |-> FALSE, prompt |-> FindJobsPrompt(jobs)]

\* find_jobs from the end of _generate_text on: return its value; the except
\* clause of find_jobs catches what it raises
FindJobsAfterGenerate(generated) ==
    IF generated.raised
    THEN Return(<<"An error occurred while searching for jobs: ">> \o generated.v)
    ELSE Return(generated.v)

TrendsUrls(job_category) ==
    << <<"https://www.payscale.com/research/US/Job=">> \o Replace(job_category, " ", "_")
           \o <<"/Salary">>,
       <<"https://www.glassdoor.com/Salaries/">> \o FormatToken(job_category)
           \o <<"-salary-SRCH_KO0,">> \o <<ToString(StrLen(job_category))>> \o <<".htm">> >>

TrendsExtractPrompt(job_category) ==
    <<"Extract industry trends data for the ">> \o job_category
    \o <<" industry. For each, extract: - industry, avg_salary, growth_rate, demand_level, top_skills 3-5 roles/sub-categories.">>

\* faulty variant: the extraction key is read from the session at call time
TrendsExtractRequest_SessionKey(self, job_category) ==
    [api_key |-> session_state["firecrawl_key"],
     urls |-> TrendsUrls(job_category),
     params |-> [prompt |-> TrendsExtractPrompt(job_category),
                 schema |-> "IndustryTrendsSchema"]]

TrendsExtractRequest(self, job_category) ==
    [api_key |-> self.firecrawl.api_key,
     urls |-> TrendsUrls(job_category),
     params |-> [prompt |-> TrendsExtractPrompt(job_category),
                 schema |-> "IndustryTrendsSchema"]]

TrendsPrompt(job_category, industries) ==
    <<"Analyze these trends for ">> \o job_category \o <<": ">>
    \o ReprList(industries)
    \o <<" INDUSTRY TRENDS SUMMARY TOP SKILLS IN DEMAND CAREER GROWTH OPPORTUNITIES RECOMMENDATIONS FOR JOB SEEKERS">>

\* get_industry_trends from the return of the extraction call on
TrendsAfterExtract(job_category, outcome) ==
    IF outcome.kind = "raises"
    THEN [ends |-> TRUE,
          completion |-> Return(<<"An error occurred while fetching industry trends: ">>
                                \o outcome.exc)]
    ELSE LET raw_response == outcome.value IN
         IF ~ExtractSucceeded(raw_response)
         THEN [ends |-> TRUE, completion |-> Return(NoTrendsMessage(job_category))]
         ELSE IF DataGetError(raw_response).has
         THEN [ends |-> TRUE,
               completion |-> Return(<<"An error occurred while fetching industry trends: ">>
                                     \o DataGetError(raw_response).v)]
         ELSE LET industries == DictGet(raw_response.d.data, "industry_trends", PyList(<<>>))
              IN IF ~Truthy(industries)
                 THEN [ends |-> TRUE, completion |-> Return(NoTrendsMessage(job_category))]
                 ELSE [ends |-> FALSE, prompt |-> TrendsPrompt(job_category, industries)]

\* get_industry_trends from the end of _generate_text on
TrendsAfterGenerate(generated) ==
    IF generated.raised
    THEN Return(<<"An error occurred while fetching industry trends: ">> \o generated.v)
    ELSE Return(generated.v)

-----------------------------------------------------------------------------
(* The environment: what the providers can answer, what the user can type *)

JobCatalog ==
    << PyDict([job_title |-> <<"Data", " ", "Engineer">>, region |-> <<"Remote">>,
               job_link |-> <<"https://jobs.example/1">>]),
       PyDict([job_title |-> <<"ML", " ", "Engineer">>, role |-> <<"Engineer">>]),
       PyDict([job_title |-> <<"Analyst">>, experience |-> <<"2", " ", "years">>]) >>

TrendCatalog ==
    << PyDict([industry |-> <<"Data", " ", "Science">>, demand_level |-> <<"high">>]),
       PyDict([industry |-> <<"Analytics">>]),
       PyDict([industry |-> <<"Machine", " ", "Learning">>, demand_level |-> <<"high">>]) >>

\* the lists a provider can return: the first k records it has, k up to n
Lists(catalog, n) == {SubSeq(catalog, 1, k) : k \in 0..Min(n, Len(catalog))}

Raises(exc) == [kind |-> "raises", exc |-> exc]
Value(v) == [kind |-> "value", value |-> v]

\* every shape of outcome of firecrawl.extract the code tells apart
ExtractOutcomes(key, lists) ==
    { Raises(<<"Payment Required: insufficient credits">>),
      Value(PyObject),
      Value(PyDict(<<>>)),
      Value(PyDict([success |-> PyBool(FALSE)])),
      Value(PyDict([success |-> PyBool(FALSE), data |-> PyDict(key :> PyList(<<JobCatalog[1]>>))])),
      Value(PyDict([success |-> PyBool(TRUE)])),
      Value(PyDict([success |-> PyBool(TRUE), data |-> None])),
      Value(PyDict([success |-> PyBool(TRUE), data |-> PyDict(<<>>)])),
      Value(PyDict([success |-> PyBool(TRUE), data |-> PyDict(key :> None)])) }
    \cup { Value(PyDict([success |-> PyBool(TRUE), data |-> PyDict(key :> PyList(l))])) : l \in lists }

FewExtractOutcomes(key, catalog) ==
    { Raises(<<"Payment Required: insufficient credits">>),
      Value(PyDict([success |-> PyBool(FALSE)])),
      Value(PyDict([success |-> PyBool(TRUE), data |-> PyDict(key :> PyList(<<catalog[1]>>))])) }

Response(status, body) == [kind |-> "response", status |-> status, body |-> body]

GeneratedTexts == { <<"Top", " ", "3", " ", "jobs">>, <<"Error generating text: ">> }

\* every shape of outcome of requests.post the code tells apart
GenerateOutcomes ==
    { Raises(<<"Connection refused">>),
      Response(503, PyList(<<PyDict([generated_text |-> <<"Top", " ", "3", " ", "jobs">>])>>)),
      Response(200, [t |-> "notjson"]),
      Response(200, PyDict([error |-> <<"Model is loading">>])),
      Response(200, PyList(<<>>)),
      Response(200, PyList(<<PyDict(<<>>)>>)) }
    \cup { Response(200, PyList(<<PyDict([generated_text |-> g])>>)) : g \in GeneratedTexts }

FewGenerateOutcomes ==
    { Response(503, PyList(<<PyDict([generated_text |-> <<"Top", " ", "3", " ", "jobs">>])>>)),
      Response(200, PyList(<<PyDict([generated_text |-> <<"Top", " ", "3", " ", "jobs">>])>>)) }

\* the options of the selectbox, the default first (two of the ten)
JobCategories == << <<"Information", " ", "Technology">>, <<"Data", " ", "Science">> >>

SkillsInputs ==
    { <<>>,
      <<"Python", ",", " ", "SQL">>,
      <<" ", "Python", " ", ",", "SQL", ",", " ">>,
      <<" ", ",", " ">> }

\* a session edited mostly in its credentials
SessionScenario ==
    [name |-> "session",
     creds |-> [model_url |-> {"https://hf/m1", "https://hf/m2"},
                hf_key |-> {"hf_1", "hf_2"},
                firecrawl_key |-> {"fc_1", "fc_2"}],
     criteria |-> [job_title |-> {<<>>, <<"Software", " ", "Engineer">>},
                   location |-> {<<>>, <<"New", " ", "York">>},
                   experience_years |-> {2},
                   skills_input |-> {<<>>},
                   job_category |-> {JobCategories[1]}],
     find_extract |-> FewExtractOutcomes("job_postings", JobCatalog),
     trends_extract |-> FewExtractOutcomes("industry_trends", TrendCatalog),
     generate |-> FewGenerateOutcomes,
     track |-> FALSE]

\* a session exercising every outcome of the external calls
OperationsScenario ==
    [name |-> "operations",
     creds |-> [model_url |-> {"https://hf/m1"},
                hf_key |-> {"hf_1"},
                firecrawl_key |-> {"fc_1"}],
     criteria |-> [job_title |-> {<<>>, <<"Software", " ", "Engineer">>},
                   location |-> {<<>>, <<"New", " ", "York">>},
                   experience_years |-> {2},
                   skills_input |-> SkillsInputs,
                   job_category |-> {JobCategories[1], JobCategories[2]}],
     find_extract |-> ExtractOutcomes("job_postings", Lists(JobCatalog, MaxPostings)),
     trends_extract |-> ExtractOutcomes("industry_trends", Lists(TrendCatalog, MaxTrends)),
     generate |-> GenerateOutcomes,
     track |-> FALSE]

\* a session in which an earlier find_jobs invocation is remembered
ReplayScenario ==
    [name |-> "replay",
     creds |-> [model_url |-> {"https://hf/m1"},
                hf_key |-> {"hf_1", "hf_2"},
                firecrawl_key |-> {"fc_1"}],
     criteria |-> [job_title |-> {<<>>, <<"Software", " ", "Engineer">>},
                   location |-> {<<>>, <<"New", " ", "York">>},
                   experience_years |-> {2},
                   skills_input |-> {<<>>, <<"Python", ",", " ", "SQL">>},
                   job_category |-> {JobCategories[1]}],
     find_extract |-> FewExtractOutcomes("job_postings", JobCatalog),
     trends_extract |-> FewExtractOutcomes("industry_trends", TrendCatalog),
     generate |-> FewGenerateOutcomes,
     track |-> TRUE]

Scenarios == {SessionScenario, OperationsScenario, ReplayScenario}

CredentialFields == {"model_url", "hf_key", "firecrawl_key"}
CriteriaFields == {"job_title", "location", "experience_years", "skills_input", "job_category"}

-----------------------------------------------------------------------------
(* main *)

Put(ss, k, v) == [x \in DOMAIN ss \cup {k} |-> IF x = k THEN v ELSE ss[x]]

\* faulty variant: no test for an agent already stored
job_agent_create_Always(ss) ==
    Put(ss, "job_agent",
        JobSearchingAgent(ss["firecrawl_key"], ss["hf_key"], ss["model_url"]))

job_agent_create(ss) ==
    IF "job_agent" \notin DOMAIN ss
    THEN Put(ss, "job_agent",
             JobSearchingAgent(ss["firecrawl_key"], ss["hf_key"], ss["model_url"]))
    ELSE ss

\* if firecrawl_key and hf_key and model_url
CredentialsPresent(w) == w.firecrawl_key # "" /\ w.hf_key # "" /\ w.model_url # ""

\* the sidebar block: st.session_state after it
Sidebar(ss, w) ==
    IF CredentialsPresent(w)
    THEN job_agent_create(Put(Put(Put(ss, "firecrawl_key", w.firecrawl_key),
                                  "hf_key", w.hf_key),
                              "model_url", w.model_url))
    ELSE ss

Shown(kind, text) == [kind |-> kind, text |-> text]

SidebarDisplay(w) ==
    IF CredentialsPresent(w) THEN <<>>
    ELSE <<Shown("warning", <<"Please provide all required API keys and model URL.">>)>>

\* [s.strip() for s in skills_input.split(",") if s.strip()]
ParseSkills(skills_input) ==
    LET parts == Split(skills_input, ",")
        stripped == [i \in 1..Len(parts) |-> Strip(parts[i])]
    IN SelectSeq(stripped, LAMBDA s : s # <<>>)

\* faulty variant: the second guard fires only when both inputs are empty
SearchGuard_BothEmpty(ss, w) ==
    IF "job_agent" \notin DOMAIN ss
    THEN Some(Shown("error", <<"Please enter your API keys in the sidebar first!">>))
    ELSE IF w.job_title = <<>> /\ w.location = <<>>
    THEN Some(Shown("error", <<"Please enter both job title and location!">>))
    ELSE Nothing

\* the guards under the button: which error ends the run, if any
SearchGuard(ss, w) ==
    IF "job_agent" \notin DOMAIN ss
    THEN Some(Shown("error", <<"Please enter your API keys in the sidebar first!">>))
    ELSE IF w.job_title = <<>> \/ w.location = <<>>
    THEN Some(Shown("error", <<"Please enter both job title and location!">>))
    ELSE Nothing

SkillsWarning(skills) ==
    IF skills = <<>>
    THEN <<Shown("warning", <<"No skills provided. Adding skills will improve job matching.">>)>>
    ELSE <<>>

NotCalled == [called |-> FALSE]

\* the invocation st.session_state.job_agent.find_jobs(...), up to its extraction call
FindJobsCall(self, w) ==
    [called |-> TRUE,
     self |-> self,
     inputs |-> [job_title |-> w.job_title, location |-> w.location,
                 experience_years |-> w.experience_years,
                 skills |-> ParseSkills(w.skills_input)],
     request |-> FindJobsExtractRequest(self, w.job_title, w.location,
                                        w.experience_years, ParseSkills(w.skills_input)),
     ext |-> Nothing, gen_request |-> Nothing, gen |-> Nothing, completion |-> Nothing]

\* the invocation st.session_state.job_agent.get_industry_trends(job_category)
TrendsCall(self, w) ==
    [called |-> TRUE,
     self |-> self,
     inputs |-> [job_category |-> w.job_category],
     request |-> TrendsExtractRequest(self, w.job_category),
     ext |-> Nothing, gen_request |-> Nothing, gen |-> Nothing, completion |-> Nothing]

\* one run of the script from its top to the first external call or to its end
RunScript(w, clicked) ==
    LET ss == Sidebar(session_state, w)
        head == SidebarDisplay(w)
                \o <<Shown("title", <<"AI Job Hunting Assistant">>),
                     Shown("info", <<"Enter your job search criteria below to get job recommendations and industry insights.">>)>>
        built == "job_agent" \in DOMAIN ss
                 /\ ("job_agent" \in DOMAIN session_state
                        => ss["job_agent"].id # session_state["job_agent"].id)
        guard == SearchGuard(ss, w)
    IN /\ session_state' = ss
       /\ constructed' = IF built THEN Min(constructed + 1, MaxConstructions) ELSE constructed
       /\ firstSupplied' = IF ~firstSupplied.has /\ CredentialsPresent(w)
                           THEN Some([firecrawl_key |-> w.firecrawl_key, hf_key |-> w.hf_key,
                                      model_url |-> w.model_url])
                           ELSE firstSupplied
       /\ job_results' = Nothing
       /\ industry_trends' = Nothing
       /\ trends' = NotCalled
       /\ IF ~clicked
          THEN /\ display' = head
               /\ pc' = "idle"
               /\ calls' = <<>>
               /\ find' = NotCalled
          ELSE IF guard.has
          THEN /\ display' = head \o <<guard.v>>
               /\ pc' = "idle"
               /\ calls' = <<"button">>
               /\ find' = NotCalled
          ELSE /\ display' = head \o SkillsWarning(ParseSkills(w.skills_input))
               /\ pc' = "find_jobs_extract"
               /\ calls' = <<"button", "find_jobs", "find_jobs.extract">>
               /\ find' = FindJobsCall(ss["job_agent"], w)

\* main from the end of get_industry_trends on
FinishTrends(t, completion) ==
    /\ trends' = [t EXCEPT !.completion = Some(completion)]
    /\ pc' = "idle"
    /\ IF completion.raised
       THEN /\ industry_trends' = industry_trends
            /\ calls' = Append(calls, "get_industry_trends.raise")
            /\ display' = Append(display, Shown("error", <<"An error occurred: ">> \o completion.v))
       ELSE /\ industry_trends' = Some(completion.v)
            /\ calls' = Append(calls, "get_industry_trends.return")
            /\ display' = display \o <<Shown("success", <<"Industry analysis completed!">>),
                                       Shown("expander", completion.v)>>

\* main from the end of find_jobs on, up to the extraction call of get_industry_trends
FinishFindJobs(f, completion, remember) ==
    /\ find' = [f EXCEPT !.completion = Some(completion)]
    /\ prev' = IF remember THEN [f EXCEPT !.completion = Some(completion)] ELSE prev
    /\ industry_trends' = industry_trends
    /\ IF completion.raised
       THEN /\ job_results' = job_results
            /\ calls' = Append(calls, "find_jobs.raise")
            /\ display' = Append(display, Shown("error", <<"An error occurred: ">> \o completion.v))
            /\ trends' = trends
            /\ pc' = "idle"
       ELSE /\ job_results' = Some(completion.v)
            /\ calls' = calls \o <<"find_jobs.return", "get_industry_trends",
                                   "get_industry_trends.extract">>
            /\ display' = display \o <<Shown("success", <<"Job search completed!">>),
                                       Shown("subheader", <<"Job Recommendations">>),
                                       Shown("markdown", completion.v),
                                       Shown("divider", <<>>)>>
            /\ trends' = TrendsCall(session_state["job_agent"], widgets)
            /\ pc' = "get_industry_trends_extract"

Remembering == IF scenario.track THEN BOOLEAN ELSE {FALSE}

-----------------------------------------------------------------------------
(* Actions *)

Init ==
    /\ scenario \in Scenarios
    /\ widgets \in [model_url : {""} \cup scenario.creds.model_url,
                    hf_key : {""} \cup scenario.creds.hf_key,
                    firecrawl_key : {""} \cup scenario.creds.firecrawl_key,
                    job_title : {<<>>},
                    location : {<<>>},
                    experience_years : {2},
                    skills_input : {<<>>},
                    job_category : {JobCategories[1]}]
    /\ session_state = <<>>
    /\ pc = "start"
    /\ job_results = Nothing
    /\ industry_trends = Nothing
    /\ display = <<>>
    /\ calls = <<>>
    /\ find = NotCalled
    /\ trends = NotCalled
    /\ constructed = 0
    /\ firstSupplied = Nothing
    /\ prev = NotCalled

\* the first run of the script, when the page is opened
Load ==
    /\ pc = "start"
    /\ RunScript(widgets, FALSE)
    /\ UNCHANGED <<scenario, widgets, prev>>

\* the user changes one credential input: the script reruns
EditCredential ==
    /\ pc = "idle"
    /\ \E k \in CredentialFields : \E v \in {""} \cup scenario.creds[k] :
          /\ v # widgets[k]
          /\ widgets' = [widgets EXCEPT ![k] = v]
          /\ RunScript(widgets', FALSE)
    /\ UNCHANGED <<scenario, prev>>

\* the user changes one search criterion: the script reruns
EditCriteria ==
    /\ pc = "idle"
    /\ \E k \in CriteriaFields : \E v \in scenario.criteria[k] :
          /\ v # widgets[k]
          /\ widgets' = [widgets EXCEPT ![k] = v]
          /\ RunScript(widgets', FALSE)
    /\ UNCHANGED <<scenario, prev>>

\* the user presses "Start Job Search": the script reruns with the button true
ClickSearch ==
    /\ pc = "idle"
    /\ RunScript(widgets, TRUE)
    /\ UNCHANGED <<scenario, widgets, prev>>

\* self.firecrawl.extract ends inside find_jobs
FindJobsExtractReturns ==
    /\ pc = "find_jobs_extract"
    /\ \E outcome \in scenario.find_extract : \E remember \in Remembering :
          LET next == FindJobsAfterExtract(outcome)
              f == [find EXCEPT !.ext = Some(outcome)]
          IN IF next.ends
             THEN FinishFindJobs(f, next.completion, remember)
             ELSE /\ ~remember
                  /\ find' = [f EXCEPT !.gen_request = Some(GenerateRequest(find.self, next.prompt))]
                  /\ calls' = Append(calls, "find_jobs.generate")
                  /\ pc' = "find_jobs_generate"
                  /\ UNCHANGED <<job_results, industry_trends, display, trends, prev>>
    /\ UNCHANGED <<scenario, widgets, session_state, constructed, firstSupplied>>

\* requests.post ends inside find_jobs
FindJobsGenerateReturns ==
    /\ pc = "find_jobs_generate"
    /\ \E outcome \in scenario.generate : \E remember \in Remembering :
          FinishFindJobs([find EXCEPT !.gen = Some(outcome)],
                         FindJobsAfterGenerate(_generate_text(outcome)), remember)
    /\ UNCHANGED <<scenario, widgets, session_state, constructed, firstSupplied>>

\* self.firecrawl.extract ends inside get_industry_trends
TrendsExtractReturns ==
    /\ pc = "get_industry_trends_extract"
    /\ \E outcome \in scenario.trends_extract :
          LET next == TrendsAfterExtract(trends.inputs.job_category, outcome)
              t == [trends EXCEPT !.ext = Some(outcome)]
          IN IF next.ends
             THEN /\ FinishTrends(t, next.completion)
                  /\ UNCHANGED job_results
             ELSE /\ trends' = [t EXCEPT !.gen_request = Some(GenerateRequest(trends.self, next.prompt))]
                  /\ calls' = Append(calls, "get_industry_trends.generate")
                  /\ pc' = "get_industry_trends_generate"
                  /\ UNCHANGED <<job_results, industry_trends, display>>
    /\ UNCHANGED <<scenario, widgets, session_state, constructed, firstSupplied, find, prev>>

\* requests.post ends inside get_industry_trends
TrendsGenerateReturns ==
    /\ pc = "get_industry_trends_generate"
    /\ \E outcome \in scenario.generate :
          FinishTrends([trends EXCEPT !.gen = Some(outcome)],
                       TrendsAfterGenerate(_generate_text(outcome)))
    /\ UNCHANGED <<scenario, widgets, session_state, constructed, firstSupplied, find, prev,
                   job_results>>

Next ==
    \/ Load
    \/ EditCredential
    \/ EditCriteria
    \/ ClickSearch
    \/ FindJobsExtractReturns
    \/ FindJobsGenerateReturns
    \/ TrendsExtractReturns
    \/ TrendsGenerateReturns

Spec == Init /\ [][Next]_vars

-----------------------------------------------------------------------------
(* Properties *)

Count(seq, x) == Cardinality({i \in 1..Len(seq) : seq[i] = x})

ButtonPressed == calls # <<>>

AgentStored == "job_agent" \in DOMAIN session_state

\* the response is not a dict, or its success flag is absent or false
ReportsFailure(v) ==
    \/ v.t # "dict"
    \/ "success" \notin DOMAIN v.d
    \/ v.d.success = PyBool(FALSE)

\* a successful response whose payload has no list under `key`, or an empty one
HasNoRecords(v, key) ==
    /\ v.t = "dict"
    /\ "success" \in DOMAIN v.d /\ v.d.success = PyBool(TRUE)
    /\ "data" \in DOMAIN v.d /\ v.d.data.t = "dict"
    /\ (key \notin DOMAIN v.d.data.d \/ v.d.data.d[key] = PyList(<<>>))

\* a successful response with a non-empty list under `key`
HasRecords(v, key) ==
    /\ v.t = "dict"
    /\ "success" \in DOMAIN v.d /\ v.d.success = PyBool(TRUE)
    /\ "data" \in DOMAIN v.d /\ v.d.data.t = "dict"
    /\ key \in DOMAIN v.d.data.d
    /\ v.d.data.d[key].t = "list" /\ v.d.data.d[key].l # <<>>

NothingExtracted(op, key) ==
    /\ op.called /\ op.ext.has /\ op.ext.v.kind = "value"
    /\ (ReportsFailure(op.ext.v.value) \/ HasNoRecords(op.ext.v.value, key))

\* C1: when the extraction call of find_jobs or get_industry_trends returns a
\* non-dict or unsuccessful response, or a successful one with an empty or
\* missing record list, the operation returns its fixed message ("No job
\* listings found matching your criteria." / "No industry trends data
\* available for <category>.") and makes no generation call.
C1_NoResultsSkipsGeneration ==
    /\ NothingExtracted(find, "job_postings") =>
          /\ find.completion = Some(Return(<<"No job listings found matching your criteria.">>))
          /\ ~find.gen_request.has
          /\ Count(calls, "find_jobs.generate") = 0
          /\ job_results = Some(<<"No job listings found matching your criteria.">>)
    /\ NothingExtracted(trends, "industry_trends") =>
          /\ trends.completion =
                Some(Return(<<"No industry trends data available for ">>
                            \o widgets.job_category \o <<".">>))
          /\ ~trends.gen_request.has
          /\ Count(calls, "get_industry_trends.generate") = 0

C1_Witness ==
    /\ NothingExtracted(find, "job_postings")
    /\ find.ext.v.value = PyDict([success |-> PyBool(FALSE),
                                  data |-> PyDict([job_postings |-> PyList(<<JobCatalog[1]>>)])])
    /\ trends.called /\ trends.ext.has /\ trends.ext.v.kind = "value"
    /\ HasNoRecords(trends.ext.v.value, "industry_trends")
    /\ industry_trends = Some(<<"No industry trends data available for ",
                                "Data", " ", "Science", ".">>)

\* C2: a search triggered while one of the three credential inputs is empty
\* is blocked: neither operation is invoked, no external call is made.
C2_EmptyCredentialBlocksSearch ==
    (ButtonPressed /\ ~CredentialsPresent(widgets)) => (~find.called /\ ~trends.called)

\* C3: a search triggered with the job title or the location empty ends with
\* an error display and invokes neither operation; an empty skills list alone
\* only adds a warning and the search goes on.
C3_RequiredCriteria ==
    /\ (ButtonPressed /\ (widgets.job_title = <<>> \/ widgets.location = <<>>)) =>
          /\ pc = "idle"
          /\ display[Len(display)].kind = "error"
          /\ ~find.called /\ ~trends.called
          /\ calls = <<"button">>
    /\ (/\ ButtonPressed /\ AgentStored
        /\ widgets.job_title # <<>> /\ widgets.location # <<>>
        /\ widgets.skills_input \in {<<>>, <<" ", ",", " ">>}) =>
          /\ find.called /\ find.inputs.skills = <<>>
          /\ \E i \in 1..Len(display) :
                display[i] = Shown("warning", <<"No skills provided. Adding skills will improve job matching.">>)
          /\ \A i \in 1..Len(display) : display[i].kind # "error"

C3_Witness ==
    /\ ButtonPressed /\ AgentStored
    /\ widgets.job_title # <<>> /\ widgets.location = <<>>
    /\ display[Len(display)] = Shown("error", <<"Please enter both job title and location!">>)

\* C4: the agent is constructed at most once in a session, only in a run
\* whose three credential inputs are non-empty and when none is stored, and
\* every operation is invoked on that one instance.
C4_ConstructedOnce ==
    /\ [](/\ constructed <= 1
          /\ (AgentStored => constructed = 1 /\ session_state["job_agent"].id = 1)
          /\ (find.called => find.self.id = 1)
          /\ (trends.called => trends.self.id = 1))
    /\ [][constructed' # constructed =>
              /\ ~AgentStored
              /\ CredentialsPresent(widgets')]_vars

C4_Witness ==
    /\ constructed = 1
    /\ trends.called /\ trends.completion.has /\ trends.self.id = 1
    /\ ~CredentialsPresent(widgets)

\* the complete call sequences of a search that passed the guards
Chains ==
    { <<"button", "find_jobs", "find_jobs.extract">> \o g1
      \o <<"find_jobs.return", "get_industry_trends", "get_industry_trends.extract">> \o g2
      \o <<"get_industry_trends.return">> :
        g1 \in {<<>>, <<"find_jobs.generate">>},
        g2 \in {<<>>, <<"get_industry_trends.generate">>} }

\* C5: a search that passes the guards runs one sequential chain without
\* retries: find_jobs once, then (after it returned, whatever it returned)
\* get_industry_trends once; per operation one extraction call, then at
\* most one generation call.
C5_OneSequentialChain ==
    find.called =>
        /\ \E c \in Chains : IsPrefix(calls, c) /\ (pc = "idle" => calls = c)
        /\ (pc = "idle" => job_results.has /\ industry_trends.has)

C5_Witness ==
    /\ pc = "idle"
    /\ calls = <<"button", "find_jobs", "find_jobs.extract", "find_jobs.return",
                 "get_industry_trends", "get_industry_trends.extract",
                 "get_industry_trends.generate", "get_industry_trends.return">>
    /\ find.ext.v.kind = "raises"

\* the generation call failed: transport failure, non-2xx status, or a body
\* that is not a JSON array whose first element has generated_text
GenerationFailed(o) ==
    \/ o.kind = "raises"
    \/ o.status \notin 200..299
    \/ o.body.t # "list"
    \/ o.body.l = <<>>
    \/ "generated_text" \notin DOMAIN o.body.l[1].d

EndsWithString(op) == (op.called /\ op.completion.has) => ~op.completion.v.raised

GenerationErrorReturned(op) ==
    (op.called /\ op.gen.has /\ GenerationFailed(op.gen.v)) =>
        /\ op.completion.has
        /\ ~op.completion.v.raised
        /\ IsPrefix(<<"Error generating text: ">>, op.completion.v.v)
        /\ Len(op.completion.v.v) > 1

\* C6: no failure of an external call propagates: whatever the extraction and
\* generation calls do, both operations end by returning a string, and a
\* failed generation call yields the string "Error generating text: ..." as
\* the operation's return value.
C6_FailuresBecomeStrings ==
    /\ EndsWithString(find) /\ EndsWithString(trends)
    /\ GenerationErrorReturned(find) /\ GenerationErrorReturned(trends)
    /\ Count(calls, "find_jobs.raise") = 0
    /\ Count(calls, "get_industry_trends.raise") = 0

C6_Witness ==
    /\ find.called /\ find.gen.has
    /\ find.gen.v = Response(503, PyList(<<PyDict([generated_text |-> <<"Top", " ", "3", " ", "jobs">>])>>))
    /\ job_results = Some(<<"Error generating text: ", "503", " Error">>)
    /\ trends.called /\ trends.ext.has /\ trends.ext.v.kind = "raises"
    /\ industry_trends.has

\* C7: when the extraction call of find_jobs succeeds with a non-empty list,
\* the generation adapter is invoked exactly once, with a prompt in which
\* every posting's job_title appears, and find_jobs returns the adapter's
\* text unchanged.
C7_PostingsSummarised ==
    (find.called /\ find.ext.has /\ find.ext.v.kind = "value"
        /\ HasRecords(find.ext.v.value, "job_postings")) =>
        LET postings == find.ext.v.value.d.data.d.job_postings.l IN
        /\ find.gen_request.has
        /\ \A i \in 1..Len(postings) :
              "job_title" \in DOMAIN postings[i].d =>
                  Contains(find.gen_request.v.json.inputs, postings[i].d.job_title)
        /\ Count(calls, "find_jobs.generate") = 1
        /\ find.completion.has =>
              /\ find.gen.has
              /\ ~find.completion.v.raised
              /\ job_results = Some(find.completion.v.v)
              /\ IF GenerationFailed(find.gen.v)
                 THEN IsPrefix(<<"Error generating text: ">>, find.completion.v.v)
                 ELSE find.completion.v.v = find.gen.v.body.l[1].d.generated_text

C7_Witness ==
    /\ find.called /\ find.ext.has /\ find.ext.v.kind = "value"
    /\ HasRecords(find.ext.v.value, "job_postings")
    /\ Len(find.ext.v.value.d.data.d.job_postings.l) = 2
    /\ Contains(find.gen_request.v.json.inputs, <<"Data", " ", "Engineer">>)
    /\ Contains(find.gen_request.v.json.inputs, <<"ML", " ", "Engineer">>)
    /\ find.gen.has /\ ~GenerationFailed(find.gen.v)
    /\ job_results = Some(<<"Top", " ", "3", " ", "jobs">>)

\* C8 as stated: for a non-empty skills sequence, the prompt passed to the
\* generation adapter contains the ", "-joined skills.
C8_SkillsInGenerationPrompt ==
    (find.called /\ find.gen_request.has /\ find.inputs.skills # <<>>) =>
        Contains(find.gen_request.v.json.inputs, Join(<<", ">>, find.inputs.skills))

\* C8 amended: for a non-empty skills sequence, the prompt passed to the
\* extraction call of find_jobs contains the ", "-joined skills; for
\* ["Python", "SQL"] it contains "Python, SQL".
C8_SkillsInExtractionPrompt ==
    (find.called /\ find.inputs.skills # <<>>) =>
        /\ Contains(find.request.params.prompt, Join(<<", ">>, find.inputs.skills))
        /\ find.inputs.skills = << <<"Python">>, <<"SQL">> >> =>
              Contains(find.request.params.prompt, <<"Python", ", ", "SQL">>)

C8_Witness ==
    /\ find.called /\ find.gen_request.has
    /\ widgets.skills_input = <<" ", "Python", " ", ",", "SQL", ",", " ">>
    /\ find.inputs.skills = << <<"Python">>, <<"SQL">> >>
    /\ Contains(find.request.params.prompt, <<"Python", ", ", "SQL">>)
    /\ ~Contains(find.gen_request.v.json.inputs, <<"Python", ", ", "SQL">>)

\* C9: the operations keep no state between calls: they leave the stored
\* agent unchanged, and a find_jobs invocation with the inputs of an earlier
\* one sends the same extraction request, on the same extraction outcome the
\* same generation request, and on the same outcomes returns the same value.
C9_NoStateBetweenCalls ==
    /\ []((prev.called /\ find.called /\ prev.inputs = find.inputs) =>
             /\ prev.request = find.request
             /\ (find.ext.has /\ prev.ext = find.ext) =>
                   /\ prev.gen_request = find.gen_request
                   /\ (find.completion.has /\ prev.gen = find.gen) =>
                         prev.completion = find.completion)
    /\ [][AgentStored =>
              /\ "job_agent" \in DOMAIN session_state'
              /\ session_state'["job_agent"] = session_state["job_agent"]]_vars

C9_Witness ==
    /\ pc = "find_jobs_generate"
    /\ prev.called /\ prev.completion.has /\ prev.gen.has
    /\ prev.inputs = find.inputs /\ prev.ext = find.ext
    /\ prev.gen_request = find.gen_request
    /\ session_state["hf_key"] # find.self.hf_api_key

UsesFirstSupplied(op) ==
    op.called =>
        /\ firstSupplied.has
        /\ op.request.api_key = firstSupplied.v.firecrawl_key
        /\ op.gen_request.has =>
              /\ op.gen_request.v.url = firstSupplied.v.model_url
              /\ op.gen_request.v.headers.Authorization = <<"Bearer ", firstSupplied.v.hf_key>>

\* C10: once the agent is constructed, credential edits never reach it: a
\* run with three non-empty inputs overwrites the session's firecrawl_key,
\* hf_key and model_url and leaves the stored agent in place, so every later
\* extraction and generation call uses the values first supplied.
C10_EditsNeverReachAgent ==
    /\ [](UsesFirstSupplied(find) /\ UsesFirstSupplied(trends))
    /\ [][(pc \in {"start", "idle"} /\ CredentialsPresent(widgets')) =>
              /\ session_state'["firecrawl_key"] = widgets'.firecrawl_key
              /\ session_state'["hf_key"] = widgets'.hf_key
              /\ session_state'["model_url"] = widgets'.model_url
              /\ AgentStored => session_state'["job_agent"] = session_state["job_agent"]]_vars

C10_Witness ==
    /\ trends.called /\ trends.gen_request.has
    /\ CredentialsPresent(widgets)
    /\ session_state["firecrawl_key"] # trends.request.api_key
    /\ session_state["hf_key"] # find.self.hf_api_key
    /\ session_state["model_url"] # trends.gen_request.v.url
    /\ trends.request.api_key = firstSupplied.v.firecrawl_key

====
